---- MODULE Spec2Model ----
(***************************************************************************)
(* Model of the per-document intelligence pipeline                         *)
(* (agents/orchestrator.py, agents/*.py) and of the graph-store writes it  *)
(* issues (graph/neo4j_client.py).                                         *)
(*                                                                         *)
(* Confidences and scores are integers in hundredths (0.7 is 70).  Texts   *)
(* are tuples of lower-case words.  Python lists are sequences; the claim  *)
(* dicts, which the stages mutate in place and which the state's lists     *)
(* only reference, live in `heap` and the lists hold indices into it.      *)
(***************************************************************************)
EXTENDS Integers, Sequences, FiniteSets, TLC

VARIABLES
    pc,        \* node of the compiled graph process_article is about to run
    docs,      \* number of articles handed to process_article so far
    raw_data,  \* state['raw_data'] of the article in flight
    state,     \* the AgentState channels of the article in flight
    heap,      \* the claim dicts referenced from state.claims
    store,     \* the graph store (Neo4j): nodes and relationships
    trace,     \* nodes run so far for the article in flight (observer)
    workers,   \* concurrent GraphBuilder runs (used by SpecConc only)
    write_errors, \* writes the GraphBuilder wrappers logged as failed (observer)
    kafka,     \* the article consumer and its caller (used by SpecKafka only)
    scorer,    \* the credibility scorer (used by SpecScorer only)
    detector,  \* the contradiction detector (used by SpecDetector only)
    analytics  \* one call of an analysis function and its answer (used by the
               \* specifications of the single functions only)

vars == <<pc, docs, raw_data, state, heap, store, trace, workers,
          write_errors, kafka, scorer, detector, analytics>>

(***************************************************************************)
(* Bounds                                                                  *)
(***************************************************************************)
MaxDocs == 1
MaxReadFailures == 1
MaxWriteFailures == 1

(***************************************************************************)
(* Generic helpers                                                         *)
(***************************************************************************)
Min(a, b) == IF a < b THEN a ELSE b
Max(a, b) == IF a > b THEN a ELSE b

Range(s) == {s[i] : i \in DOMAIN s}

RECURSIVE Map(_, _)
Map(f(_), items) ==
    IF items = <<>> THEN <<>> ELSE <<f(Head(items))>> \o Map(f, Tail(items))

\* <<a, a + 1, ..., b>>
RECURSIVE Interval(_, _)
Interval(a, b) == IF a > b THEN <<>> ELSE <<a>> \o Interval(a + 1, b)

\* Python None (or any other non-number) where a number is expected
None == -99999

(***************************************************************************)
(* Texts, words and ids                                                    *)
(***************************************************************************)
VocabSeq ==
    <<"rates", "will", "rise", "in", "may", "not", "june", "exports", "fell",
      "last", "year", "growth", "was", "flat", "fed", "powell", "_",
      "ORGANIZATION", "PERSON", "talks", "held">>

WordCode(w) == CHOOSE i \in DOMAIN VocabSeq : VocabSeq[i] = w

\* hashlib.md5(text.encode()).hexdigest()[:16], as a 16-bit fold of the text
RECURSIVE GenerateId(_)
GenerateId(text) ==
    IF text = <<>> THEN 7
    ELSE (GenerateId(SubSeq(text, 1, Len(text) - 1)) * 31
             + WordCode(text[Len(text)])) % 65536

TA == <<"rates", "will", "rise", "in", "may">>
TB == <<"rates", "will", "rise", "in", "may", "not", "june">>
TC == <<"exports", "fell", "last", "year">>
TD == <<"growth", "was", "flat">>

\* c.text CONTAINS $keyword, on texts whose words do not overlap each other
Contains(text, keyword) ==
    \E i \in 1..(Len(text) - Len(keyword) + 1) :
        SubSeq(text, i, i + Len(keyword) - 1) = keyword

(***************************************************************************)
(* AgentState                                                              *)
(***************************************************************************)
create_initial_state(raw) ==
    [ source           |-> raw.source,
      entities         |-> <<>>,
      events           |-> <<>>,
      claims           |-> <<>>,
      graph_operations |-> <<>>,
      processing_log   |-> <<>>,
      processed_by     |-> <<>>,
      errors           |-> <<>>,
      raw_text         |-> <<>>,
      bias_analysis    |-> None,
      next_agent       |-> "None" ]

\* What the channels hold after a node returned `ret`: the list fields are
\* declared Annotated[List[...], operator.add].  A node gets the
\* channels' own list objects, mutates them in place and returns the whole
\* state, so for a list it did not rebind the channel's value and the
\* returned value are the same list; operator.add concatenates the two.
\* `rebound` are the keys the node assigned a fresh list to; for those the
\* channel still holds `old`.
Reduce(old, ret, rebound) ==
    LET add(f) == (IF f \in rebound THEN old[f] ELSE ret[f]) \o ret[f]
    IN [ret EXCEPT !.entities = add("entities"),
                   !.events = add("events"),
                   !.claims = add("claims"),
                   !.graph_operations = add("graph_operations"),
                   !.processing_log = add("processing_log"),
                   !.processed_by = add("processed_by"),
                   !.errors = add("errors")]

(***************************************************************************)
(* CollectorAgent                                                          *)
(***************************************************************************)
\* raw_data: title/content are TRUE when present and non-empty; long is
\* TRUE when title and content together make at least 50 characters.
\* variant: the validation asks for content only
CollectorValid_ContentOnly(raw) == raw.content

CollectorValid(raw) == raw.content \/ raw.title

CollectorProcess(s, raw) ==
    IF CollectorValid(raw)
    THEN [s EXCEPT !.processed_by = Append(@, "CollectorAgent"),
                   !.next_agent = "AnalyzerAgent"]
    ELSE [s EXCEPT !.errors = Append(@, "CollectorAgent"),
                   !.next_agent = "None"]

(***************************************************************************)
(* AnalyzerAgent                                                           *)
(***************************************************************************)
_create_entity(d) ==
    [ id         |-> GenerateId(<<d.name, "_", d.type>>),
      name       |-> d.name,
      type       |-> d.type,
      confidence |-> 80 ]

_create_event(d) ==
    [ id |-> GenerateId(d.description), description |-> d.description ]

_create_claim(d) ==
    [ id             |-> GenerateId(d.text),
      text           |-> d.text,
      confidence     |-> d.confidence,
      similar_claims |-> <<>>,
      contradictions |-> <<>>,
      verification   |-> "NONE" ]

\* index of the first item whose required key is missing (KeyError), or 0
FirstBad(items) ==
    IF \E i \in DOMAIN items : ~items[i].ok
    THEN CHOOSE i \in DOMAIN items :
            ~items[i].ok /\ \A j \in 1..(i - 1) : items[j].ok
    ELSE 0

GoodPrefix(items) ==
    IF FirstBad(items) = 0 THEN items ELSE SubSeq(items, 1, FirstBad(items) - 1)


\* The result of AnalyzerAgent.process: the mutated state and claim heap.
\* `analysis` is what _analyze_with_llm returned: kind "empty" for {} (also
\* returned when the call raised), "nondict" for a truthy JSON value that
\* is not an object, "dict" for an object.
AnalyzerProcess(s, h, raw, analysis) ==
    IF ~raw.full_text \/ ~raw.long
    THEN [st |-> [s EXCEPT !.next_agent = "GraphBuilderAgent"], hp |-> h]
    ELSE
    LET fail(st, hp) ==
            [st |-> [st EXCEPT !.errors = Append(@, "AnalyzerAgent"),
                               !.next_agent = "GraphBuilderAgent"],
             hp |-> hp]
        done(st, hp) ==
            [st |-> [st EXCEPT !.processed_by = Append(@, "AnalyzerAgent"),
                               !.next_agent =
                                   IF st.claims # <<>>
                                   THEN "CrossReferenceAgent"
                                   ELSE "GraphBuilderAgent"],
             hp |-> hp]
    IN
    CASE analysis.kind = "empty"   -> done(s, h)
      [] analysis.kind = "nondict" -> fail(s, h)
      [] analysis.kind = "dict" ->
           LET ents == Map(_create_entity, GoodPrefix(analysis.entities))
               evs  == Map(_create_event, GoodPrefix(analysis.events))
               cls  == Map(_create_claim, GoodPrefix(analysis.claims))
               s1 == [s EXCEPT !.entities = @ \o ents]
               s2 == [s1 EXCEPT !.events = @ \o evs]
               h3 == h \o cls
               s3 == [s2 EXCEPT !.claims =
                         @ \o Interval(Len(h) + 1, Len(h) + Len(cls))]
           IN IF FirstBad(analysis.entities) # 0 THEN fail(s1, h)
              ELSE IF FirstBad(analysis.events) # 0 THEN fail(s2, h)
              ELSE IF FirstBad(analysis.claims) # 0 THEN fail(s3, h3)
              ELSE done(s3, h3)

(***************************************************************************)
(* Routing                                                                 *)
(***************************************************************************)
\* variant: the router follows the next_agent hint of the stage
_route_from_analyzer_ByHint(s) ==
    IF s.next_agent = "CrossReferenceAgent" THEN "cross_reference" ELSE "graph_builder"

\* variant: the router never enters cross-referencing
_route_from_analyzer_Skip(s) == "graph_builder"

_route_from_analyzer(s) ==
    IF s.claims # <<>> THEN "cross_reference" ELSE "graph_builder"

\* variant: the router looks at the similar claims
_route_from_cross_reference_BySimilar(s, h) ==
    IF \E i \in DOMAIN s.claims : h[s.claims[i]].similar_claims # <<>>
    THEN "bias_detector"
    ELSE "graph_builder"

_route_from_cross_reference(s, h) ==
    IF \E i \in DOMAIN s.claims : h[s.claims[i]].contradictions # <<>>
    THEN "bias_detector"
    ELSE "graph_builder"

(***************************************************************************)
(* Graph store (Neo4jClient)                                               *)
(***************************************************************************)
EmptyStore ==
    [ sources |-> <<>>, entities |-> <<>>, claims |-> <<>>,
      about |-> {}, contradicts |-> {} ]

\* MERGE (n {id: $id}) SET n.<fields> = ...: update every node matching the
\* key, or create one node when none matches
\* variant: CREATE in place of MERGE
MergeNode_Create(nodes, node) == Append(nodes, node)

MergeNode(nodes, node) ==
    IF \E i \in DOMAIN nodes : nodes[i].id = node.id
    THEN LET Set(n) == IF n.id = node.id THEN node ELSE n
         IN Map(Set, nodes)
    ELSE Append(nodes, node)

HasNode(nodes, id) == \E i \in DOMAIN nodes : nodes[i].id = id

find_similar_claims(graph, claim_text, limit) ==
    LET keyword == SubSeq(claim_text, 1, Min(3, Len(claim_text)))
        Match(n) == Contains(n.text, keyword)
        found == SelectSeq(graph.claims, Match)
    IN SubSeq(found, 1, Min(limit, Len(found)))

\* variant: CREATE in place of MERGE for entities
create_entity_Create(graph, entity) ==
    [graph EXCEPT !.entities =
        Append(@, [id |-> entity.id, name |-> entity.name,
                   type |-> entity.type, confidence |-> entity.confidence])]

create_entity(graph, entity) ==
    [graph EXCEPT !.entities =
        MergeNode(@, [id |-> entity.id, name |-> entity.name,
                      type |-> entity.type, confidence |-> entity.confidence])]

create_claim(graph, claim) ==
    [graph EXCEPT !.claims =
        MergeNode(@, [id |-> claim.id, text |-> claim.text,
                      confidence |-> claim.confidence])]

create_source(graph, url) ==
    [graph EXCEPT !.sources = MergeNode(@, [id |-> url])]

link_claim_to_entity(graph, claim_id, entity_id) ==
    IF HasNode(graph.claims, claim_id) /\ HasNode(graph.entities, entity_id)
    THEN [graph EXCEPT !.about = @ \cup {[claim |-> claim_id, entity |-> entity_id]}]
    ELSE graph

\* MERGE (c1)-[r:CONTRADICTS]-(c2) matches the relationship in either
\* direction; SET overwrites its confidence
link_claim_contradiction(graph, claim1_id, claim2_id, confidence) ==
    IF ~(HasNode(graph.claims, claim1_id) /\ HasNode(graph.claims, claim2_id))
    THEN graph
    ELSE LET same(e) == {e.from, e.to} = {claim1_id, claim2_id}
             old == {e \in graph.contradicts : same(e)}
         IN IF old # {}
            THEN [graph EXCEPT !.contradicts =
                    (@ \ old) \cup {[e EXCEPT !.confidence = confidence] : e \in old}]
            ELSE [graph EXCEPT !.contradicts =
                    @ \cup {[from |-> claim1_id, to |-> claim2_id,
                             confidence |-> confidence]}]

(***************************************************************************)
(* CrossReferenceAgent                                                     *)
(***************************************************************************)
negations == {"not", "no", "never", "cannot", "isn't", "aren't", "won't"}

\* any(neg in text for neg in negations); no word of the vocabulary holds a
\* negation as a proper substring
HasNegation(text) == \E i \in DOMAIN text : text[i] \in negations

\* variant: the overlap alone decides
_are_contradictory_Overlap(text1, text2) ==
    Cardinality(Range(text1) \cap Range(text2)) > 3

_are_contradictory(text1, text2) ==
    /\ HasNegation(text1) # HasNegation(text2)
    /\ Cardinality(Range(text1) \cap Range(text2)) > 3

_detect_contradictions(current_claim, similar_claims) ==
    LET Hit(similar) == _are_contradictory(current_claim.text, similar.text)
        Contradiction(similar) == [claim_id |-> similar.id, confidence |-> 70]
    IN Map(Contradiction, SelectSeq(similar_claims, Hit))

\* c.get('status'): the key is present only when the store returned it
Get_status(c) == IF "status" \in DOMAIN c THEN c.status ELSE "None"

\* round(x, 2) leaves a whole number of hundredths as it is
_calculate_confidence(claim, similar_claims, contradictions) ==
    LET base == claim.confidence
        verified == {i \in DOMAIN similar_claims :
                        Get_status(similar_claims[i]) = "VERIFIED"}
        boosted == IF verified # {} THEN Min(100, base + 20) ELSE base
    IN IF contradictions # <<>>
       THEN Max(0, boosted - Len(contradictions) * 15)
       ELSE boosted

\* the loop of CrossReferenceAgent.process over state['claims'], from
\* position i; `fails` are the positions whose store read raises (the agent
\* then takes the similar claims to be []).  Arithmetic on a confidence
\* that is not a number raises TypeError, which nothing catches.
RECURSIVE CrossReferenceLoop(_, _, _, _, _)
CrossReferenceLoop(h, claims, i, fails, graph) ==
    IF i > Len(claims) THEN [hp |-> h, raised |-> FALSE]
    ELSE
    LET r == claims[i]
        similar == IF i \in fails THEN <<>>
                   ELSE find_similar_claims(graph, h[r].text, 5)
        h1 == [h EXCEPT ![r].similar_claims = similar]
        contradictions == _detect_contradictions(h1[r], similar)
        h2 == [h1 EXCEPT ![r].contradictions = contradictions]
    IN IF similar = <<>> THEN CrossReferenceLoop(h1, claims, i + 1, fails, graph)
       ELSE IF h2[r].confidence = None THEN [hp |-> h2, raised |-> TRUE]
       ELSE CrossReferenceLoop(
               [h2 EXCEPT ![r].confidence =
                   _calculate_confidence(h2[r], similar, contradictions)],
               claims, i + 1, fails, graph)

CrossReferenceProcess(s, h, fails, graph) ==
    LET loop == CrossReferenceLoop(h, s.claims, 1, fails, graph)
        s1 == [s EXCEPT !.processing_log = Append(@, "CrossReferenceAgent")]
        has_contradictions ==
            \E i \in DOMAIN s.claims : loop.hp[s.claims[i]].contradictions # <<>>
    IN [st |-> [s1 EXCEPT !.next_agent =
                    IF has_contradictions THEN "BiasDetectorAgent"
                    ELSE "GraphBuilderAgent"],
        hp |-> loop.hp,
        raised |-> loop.raised]

(***************************************************************************)
(* BiasDetectorAgent                                                       *)
(***************************************************************************)
BIAS_INDICATORS ==
    {"radical", "extreme", "dangerous", "shocking", "outrageous",
     "devastating", "slam", "destroy", "demolish",
     "always", "never", "all", "none", "every", "completely",
     "totally", "absolutely", "entirely",
     "feel", "believe", "fear", "hope", "worry", "concerned",
     "alarmed", "excited", "angry"}

\* x / d rounded to the nearest integer, ties to even (Python's round)
DivRound(x, d) ==
    LET q == x \div d
        r == x % d
    IN IF 2 * r < d THEN q
       ELSE IF 2 * r > d THEN q + 1
       ELSE IF q % 2 = 0 THEN q ELSE q + 1

_detect_bias_patterns(text) ==
    LET total_indicators == Cardinality(BIAS_INDICATORS \cap Range(text))
        word_count == Len(text)
    IN Min(100, (total_indicators * 10000) \div Max(word_count, 1))

\* `llm` is what the bias call of the language model gave: kind "raise"
\* (the agent then uses its default dict), "dict" with its bias_score, or
\* "nondict".  The overall score, in hundredths.
_analyze_bias(text, llm) ==
    LET bias_score == IF llm.kind = "raise" THEN 50 ELSE llm.bias_score
    IN DivRound(_detect_bias_patterns(text) + bias_score, 2)

\* llm_analysis.get on a value that is not a dict, or adding a bias_score
\* that is not a number, raises and nothing catches it
AnalyzeBiasRaises(llm) ==
    \/ llm.kind = "nondict"
    \/ llm.kind = "dict" /\ llm.bias_score = None

_verify_claim(claim, context) ==
    LET claim_words == Range(claim.text)
        overlap == claim_words \cap Range(context)
        n == Cardinality(claim_words)
    IN IF n # 0 /\ Cardinality(overlap) * 10 > 7 * n THEN "SUPPORTED"
       ELSE IF n # 0 /\ Cardinality(overlap) * 10 > 4 * n THEN "PARTIALLY_SUPPORTED"
       ELSE "UNSUPPORTED"

\* confidence, in ten-thousandths until the final round(., 2)
_adjust_confidence(original_confidence, overall_bias_score, status) ==
    LET penalised == original_confidence * 100 - overall_bias_score * 20
        adjusted == IF status = "SUPPORTED" THEN penalised + 1000
                    ELSE IF status = "UNSUPPORTED" THEN penalised - 2000
                    ELSE penalised
    IN Max(0, Min(100, DivRound(adjusted, 100)))

RECURSIVE BiasDetectorLoop(_, _, _, _, _)
BiasDetectorLoop(h, claims, i, article_text, bias) ==
    IF i > Len(claims) THEN [hp |-> h, raised |-> FALSE]
    ELSE
    LET r == claims[i]
        status == _verify_claim(h[r], article_text)
        h1 == [h EXCEPT ![r].verification = status]
    IN IF h1[r].confidence = None THEN [hp |-> h1, raised |-> TRUE]
       ELSE BiasDetectorLoop(
               [h1 EXCEPT ![r].confidence =
                   _adjust_confidence(h1[r].confidence, bias, status)],
               claims, i + 1, article_text, bias)

BiasDetectorProcess(s, h, llm) ==
    IF AnalyzeBiasRaises(llm) THEN [st |-> s, hp |-> h, raised |-> TRUE]
    ELSE
    LET bias == _analyze_bias(s.raw_text, llm)
        loop == BiasDetectorLoop(h, s.claims, 1, s.raw_text, bias)
    IN [st |-> [s EXCEPT !.bias_analysis = bias,
                         !.processing_log = Append(@, "BiasDetectorAgent"),
                         !.next_agent = "GraphBuilderAgent"],
        hp |-> loop.hp,
        raised |-> loop.raised]

(***************************************************************************)
(* GraphBuilderAgent                                                       *)
(***************************************************************************)
\* claim.get('mentioned_entities', [])
Get_mentioned_entities(claim) ==
    IF "mentioned_entities" \in DOMAIN claim THEN claim.mentioned_entities ELSE <<>>

GraphOperation(operation_type, node_type, node_id) ==
    [operation_type |-> operation_type, node_type |-> node_type, node_id |-> node_id]

\* the steps GraphBuilderAgent.process takes for one claim: the claim node,
\* then its ABOUT links, then its CONTRADICTS links
ClaimSteps(claim) ==
    LET About(entity) ==
            [op |-> GraphOperation("LINK", "Claim->Entity", <<claim.id, entity>>),
             call |-> "link_claim_to_entity",
             arg |-> [claim |-> claim.id, entity |-> entity]]
        Contradicts(contradiction) ==
            [op |-> GraphOperation("LINK", "Claim->Claim",
                                   <<claim.id, contradiction.claim_id>>),
             call |-> "link_claim_contradiction",
             arg |-> [claim1 |-> claim.id,
                      claim2 |-> contradiction.claim_id,
                      confidence |-> contradiction.confidence]]
    IN <<[op |-> GraphOperation("CREATE", "Claim", claim.id),
          call |-> "create_claim", arg |-> claim]>>
       \o Map(About, Get_mentioned_entities(claim))
       \o Map(Contradicts, claim.contradictions)

RECURSIVE AllClaimSteps(_, _)
AllClaimSteps(h, claims) ==
    IF claims = <<>> THEN <<>>
    ELSE ClaimSteps(h[Head(claims)]) \o AllClaimSteps(h, Tail(claims))

\* every step of GraphBuilderAgent.process, in order: the operation it
\* records and the store call it makes ("none" for events, whose creation
\* only logs)
GraphBuilderSteps(s, h) ==
    LET Entity(entity) ==
            [op |-> GraphOperation("CREATE", "Entity", entity.id),
             call |-> "create_entity", arg |-> entity]
        Event(event) ==
            [op |-> GraphOperation("CREATE", "Event", event.id),
             call |-> "none", arg |-> event]
    IN (IF s.source # ""
        THEN <<[op |-> GraphOperation("CREATE", "Source", s.source),
                call |-> "create_source", arg |-> s.source]>>
        ELSE <<>>)
       \o Map(Entity, s.entities)
       \o AllClaimSteps(h, s.claims)
       \o Map(Event, s.events)

\* one store call of the builder; a call that raises is caught and logged
\* by the _create_*/_link_* wrapper and leaves the store as it was
StoreCall(graph, step, raises) ==
    IF raises THEN graph
    ELSE CASE step.call = "create_source" -> create_source(graph, step.arg)
           [] step.call = "create_entity" -> create_entity(graph, step.arg)
           [] step.call = "create_claim"  -> create_claim(graph, step.arg)
           [] step.call = "link_claim_to_entity" ->
                link_claim_to_entity(graph, step.arg.claim, step.arg.entity)
           [] step.call = "link_claim_contradiction" ->
                link_claim_contradiction(graph, step.arg.claim1, step.arg.claim2,
                                         step.arg.confidence)
           [] OTHER -> graph

SameWrite(a, b) ==
    /\ a.op.node_type = b.op.node_type
    /\ a.op.node_id = b.op.node_id

\* the position of the first step that makes the same write as step i
FirstOf(steps, i) == CHOOSE j \in 1..i :
    SameWrite(steps[j], steps[i]) /\ \A k \in 1..(j - 1) : ~SameWrite(steps[k], steps[i])

\* variant: the first store call that raises ends the batch
RunSteps_Abort(graph, steps, i, failing) ==
    LET bad == {k \in DOMAIN steps : FirstOf(steps, k) \in failing}
        upto == IF bad = {} THEN Len(steps)
                ELSE (CHOOSE k \in bad : \A j \in bad : k <= j) - 1
        RECURSIVE Run(_, _)
        Run(g, k) == IF k > upto THEN g
                     ELSE Run(StoreCall(g, steps[k], FALSE), k + 1)
    IN Run(graph, i)

RECURSIVE RunSteps(_, _, _, _)
RunSteps(graph, steps, i, failing) ==
    IF i > Len(steps) THEN graph
    ELSE RunSteps(StoreCall(graph, steps[i], FirstOf(steps, i) \in failing),
                  steps, i + 1, failing)

\* `failing`: the writes (named by the position of their first step) that
\* raise each time they are issued
GraphBuilderProcess(s, h, graph, failing) ==
    LET steps == GraphBuilderSteps(s, h)
        Operation(step) == step.op
        operations == Map(Operation, steps)
    IN [st |-> [s EXCEPT !.graph_operations = operations,
                         !.processing_log = Append(@, "GraphBuilderAgent"),
                         !.next_agent = "COMPLETE"],
        graph |-> RunSteps(graph, steps, 1, failing),
        errors |-> {steps[i].op : i \in {k \in DOMAIN steps :
                        steps[k].call # "none" /\ FirstOf(steps, k) \in failing}}]

(***************************************************************************)
(* Inputs: articles and answers of the language model                      *)
(***************************************************************************)
\* title only (short or long), content only (long), or neither; with and
\* without a source dict
Articles ==
    {a \in [title : BOOLEAN, content : BOOLEAN, long : BOOLEAN,
            source : {"", "u1"}, full_text : {FALSE}] :
        /\ ~(a.title /\ a.content)
        /\ a.long => (a.title \/ a.content)
        /\ a.content => a.long}

\* confidences the extraction may give a claim: in range, out of range, null
ConfValues == {None, -50, 70, 150}

Fed == [ok |-> TRUE, name |-> "fed", type |-> "ORGANIZATION"]
Powell == [ok |-> TRUE, name |-> "powell", type |-> "PERSON"]
NoType == [ok |-> FALSE, name |-> "fed", type |-> "_"]
Talks == [ok |-> TRUE, description |-> <<"talks", "held">>]
ClaimData(text, confidence) == [ok |-> TRUE, text |-> text, confidence |-> confidence]
NoText == [ok |-> FALSE, text |-> <<>>, confidence |-> 70]

Extraction(entities, events, claims) ==
    [kind |-> "dict", entities |-> entities, events |-> events, claims |-> claims]

Analyses ==
    {[kind |-> k, entities |-> <<>>, events |-> <<>>, claims |-> <<>>] :
        k \in {"empty", "nondict"}}
    \cup {Extraction(<<Fed>>, <<Talks>>, <<ClaimData(TA, c)>>) : c \in ConfValues}
    \cup { Extraction(<<Fed, Powell>>, <<>>, <<ClaimData(TB, 90)>>),
           Extraction(<<>>, <<>>, <<ClaimData(TC, 70), ClaimData(TA, 150), ClaimData(TD, 0)>>),
           Extraction(<<Fed>>, <<>>, <<ClaimData(TB, 100), NoText>>),
           Extraction(<<Fed, NoType>>, <<>>, <<ClaimData(TA, 70)>>),
           Extraction(<<Powell>>, <<>>, <<ClaimData(TB, 90), ClaimData(TC, None)>>) }

BiasAnswers ==
    {[kind |-> "raise", bias_score |-> 50], [kind |-> "nondict", bias_score |-> 50]}
    \cup {[kind |-> "dict", bias_score |-> b] : b \in {None, 0, 100, 400}}

ReadFailChoices(n) ==
    {S \in SUBSET (1..n) : Cardinality(S) <= MaxReadFailures} \cup {1..n}

WriteFailChoices(steps) ==
    LET firsts == {i \in DOMAIN steps : FirstOf(steps, i) = i}
    IN {S \in SUBSET firsts : Cardinality(S) <= MaxWriteFailures} \cup {firsts}

(***************************************************************************)
(* process_article: one action per node of the compiled graph              *)
(***************************************************************************)
NoArticle ==
    [title |-> FALSE, content |-> FALSE, long |-> FALSE, source |-> "",
     full_text |-> FALSE]

\* what an earlier run left in the store: source u1, entity Fed and claim
\* TA at confidence 0.7
EarlierRun ==
    create_claim(
        create_entity(create_source(EmptyStore, "u1"), _create_entity(Fed)),
        _create_claim(ClaimData(TA, 70)))

\* the store outlives the process: it is empty or holds an earlier run
Init ==
    /\ pc = "idle"
    /\ docs = 0
    /\ raw_data = NoArticle
    /\ state = create_initial_state(NoArticle)
    /\ heap = <<>>
    /\ store \in {EmptyStore, EarlierRun}
    /\ trace = <<>>
    /\ workers = <<>>
    /\ write_errors = {}
    /\ kafka = <<>>
    /\ scorer = <<>>
    /\ detector = <<>>
    /\ analytics = <<>>

\* process_article is called with the next article (process_batch goes on
\* to the next one after an exception as well)
Start ==
    /\ pc \in {"idle", "END", "raised"}
    /\ docs < MaxDocs
    /\ \E raw \in Articles :
         /\ raw_data' = raw
         /\ state' = create_initial_state(raw)
    /\ docs' = docs + 1
    /\ heap' = <<>>
    /\ trace' = <<>>
    /\ pc' = "collector"
    /\ write_errors' = {}
    /\ UNCHANGED <<store, workers, kafka, scorer, detector, analytics>>

Collector ==
    /\ pc = "collector"
    /\ raw_data' = [raw_data EXCEPT !.full_text = CollectorValid(raw_data)]
    /\ state' = Reduce(state, CollectorProcess(state, raw_data), {})
    /\ pc' = "analyzer"
    /\ trace' = Append(trace, "collector")
    /\ UNCHANGED <<docs, heap, store, workers, write_errors, kafka, scorer, detector, analytics>>

Analyzer ==
    /\ pc = "analyzer"
    /\ \E analysis \in Analyses :
         LET r == AnalyzerProcess(state, heap, raw_data, analysis)
         IN /\ state' = Reduce(state, r.st, {})
            /\ heap' = r.hp
    /\ pc' = _route_from_analyzer(state')
    /\ trace' = Append(trace, "analyzer")
    /\ UNCHANGED <<docs, raw_data, store, workers, write_errors, kafka, scorer, detector, analytics>>

CrossReference ==
    /\ pc = "cross_reference"
    /\ \E fails \in ReadFailChoices(Len(state.claims)) :
         LET r == CrossReferenceProcess(state, heap, fails, store)
         IN /\ heap' = r.hp
            /\ IF r.raised
               THEN /\ pc' = "raised"
                    /\ UNCHANGED state
               ELSE /\ state' = Reduce(state, r.st, {})
                    /\ pc' = _route_from_cross_reference(state', heap')
    /\ trace' = Append(trace, "cross_reference")
    /\ UNCHANGED <<docs, raw_data, store, workers, write_errors, kafka, scorer, detector, analytics>>

BiasDetector ==
    /\ pc = "bias_detector"
    /\ \E llm \in BiasAnswers :
         LET r == BiasDetectorProcess(state, heap, llm)
         IN /\ heap' = r.hp
            /\ IF r.raised
               THEN /\ pc' = "raised"
                    /\ UNCHANGED state
               ELSE /\ state' = Reduce(state, r.st, {})
                    /\ pc' = "graph_builder"
    /\ trace' = Append(trace, "bias_detector")
    /\ UNCHANGED <<docs, raw_data, store, workers, write_errors, kafka, scorer, detector, analytics>>

GraphBuilder ==
    /\ pc = "graph_builder"
    /\ \E failing \in WriteFailChoices(GraphBuilderSteps(state, heap)) :
         LET r == GraphBuilderProcess(state, heap, store, failing)
         IN /\ state' = Reduce(state, r.st, {"graph_operations"})
            /\ store' = r.graph
            /\ write_errors' = r.errors
    /\ pc' = "END"
    /\ trace' = Append(trace, "graph_builder")
    /\ UNCHANGED <<docs, raw_data, heap, workers, kafka, scorer, detector, analytics>>

Next ==
    \/ Start
    \/ Collector
    \/ Analyzer
    \/ CrossReference
    \/ BiasDetector
    \/ GraphBuilder

Spec == Init /\ [][Next]_vars

(***************************************************************************)
(* Two workers running GraphBuilderAgent.process at the same time          *)
(***************************************************************************)
LongArticle ==
    [title |-> FALSE, content |-> TRUE, long |-> TRUE, source |-> "u1",
     full_text |-> FALSE]

\* The state and heap with which process_article enters graph_builder for
\* `analysis` against the store `graph` (every store read answers, the
\* bias call of the language model raises); ok is FALSE when a stage
\* raised on the way.
ReadyForGraphBuilder(raw, analysis, graph) ==
    LET s0 == create_initial_state(raw)
        s1 == Reduce(s0, CollectorProcess(s0, raw), {})
        raw1 == [raw EXCEPT !.full_text = CollectorValid(raw)]
        a == AnalyzerProcess(s1, <<>>, raw1, analysis)
        s2 == Reduce(s1, a.st, {})
        c == CrossReferenceProcess(s2, a.hp, {}, graph)
        s3 == Reduce(s2, c.st, {})
        b == BiasDetectorProcess(s3, c.hp, [kind |-> "raise", bias_score |-> 50])
        s4 == Reduce(s3, b.st, {})
    IN IF _route_from_analyzer(s2) = "graph_builder"
       THEN [st |-> s2, hp |-> a.hp, ok |-> TRUE]
       ELSE IF c.raised THEN [st |-> s2, hp |-> c.hp, ok |-> FALSE]
       ELSE IF _route_from_cross_reference(s3, c.hp) = "graph_builder"
       THEN [st |-> s3, hp |-> c.hp, ok |-> TRUE]
       ELSE [st |-> s4, hp |-> b.hp, ok |-> ~b.raised]

\* what the two workers extracted: overlapping entities and claims, the
\* shared claim TA at different confidences
FirstWorkerAnalyses ==
    { Extraction(<<Fed>>, <<Talks>>, <<ClaimData(TA, 70)>>),
      Extraction(<<Fed, Powell>>, <<>>, <<ClaimData(TB, 90)>>) }

SecondWorkerAnalyses ==
    { Extraction(<<Fed>>, <<>>, <<ClaimData(TA, 150)>>),
      Extraction(<<Powell>>, <<>>, <<ClaimData(TC, 70), ClaimData(TA, 150)>>) }

\* One session.run of the store client is one auto-commit transaction, and
\* the schema's uniqueness constraints on the ids make a MERGE atomic
\* against the other sessions.
StoreStatement(graph, step, raises) == StoreCall(graph, step, raises)

InitConc ==
    /\ pc = "idle"
    /\ docs = 0
    /\ raw_data = NoArticle
    /\ state = create_initial_state(NoArticle)
    /\ heap = <<>>
    /\ trace = <<>>
    /\ write_errors = {}
    /\ kafka = <<>>
    /\ scorer = <<>>
    /\ detector = <<>>
    /\ analytics = <<>>
    /\ store \in {EmptyStore, EarlierRun}
    /\ \E a1 \in FirstWorkerAnalyses, a2 \in SecondWorkerAnalyses :
         \E r1 \in {ReadyForGraphBuilder(LongArticle, a1, store)},
            r2 \in {ReadyForGraphBuilder(LongArticle, a2, store)} :
            /\ r1.ok /\ r2.ok
            /\ \E steps1 \in {GraphBuilderSteps(r1.st, r1.hp)},
                  steps2 \in {GraphBuilderSteps(r2.st, r2.hp)} :
                 workers = <<[steps |-> steps1, next |-> 1, failed |-> FALSE],
                             [steps |-> steps2, next |-> 1, failed |-> FALSE]>>

\* worker w makes the next store call of its batch; the call may raise
WorkerWrite(w) ==
    /\ workers[w].next <= Len(workers[w].steps)
    /\ \E raises \in BOOLEAN :
         /\ store' = StoreStatement(store, workers[w].steps[workers[w].next], raises)
         /\ workers' = [workers EXCEPT ![w].next = @ + 1,
                                       ![w].failed = @ \/ raises]
    /\ UNCHANGED <<pc, docs, raw_data, state, heap, trace, write_errors, kafka,
                   scorer, detector, analytics>>

FirstWorker == WorkerWrite(1)
SecondWorker == WorkerWrite(2)

NextConc ==
    \/ FirstWorker
    \/ SecondWorker

SpecConc == InitConc /\ [][NextConc]_vars

(***************************************************************************)
(* Properties                                                              *)
(***************************************************************************)
Started == docs >= 1
Finished == pc = "END"
HasContradictions(s, h) ==
    \E i \in DOMAIN s.claims : h[s.claims[i]].contradictions # <<>>
Persisted(id) == HasNode(store.claims, id)

\* C1: for a document with content, whatever the extraction service and
\* the store answer, process_article never aborts in a non-terminal stage.
C1_NeverAborts ==
    (Started /\ raw_data.content) => pc # "raised"

\* C2: when title and content are both empty, the Collector records an
\* error and no later stage runs, nothing is written to the store and the
\* run does not end Complete.
C2_EmptyDocumentStops ==
    (Started /\ ~raw_data.title /\ ~raw_data.content /\ pc # "collector") =>
        /\ "CollectorAgent" \in Range(state.errors)
        /\ Range(trace) \subseteq {"collector"}
        /\ state.graph_operations = <<>>
        /\ state.next_agent # "COMPLETE"

\* C3 (as stated): a document with a title and empty content fails in the
\* Collector, the pipeline ends Failed and no claim is persisted.
C3_TitleOnlyFails ==
    (Started /\ raw_data.title /\ ~raw_data.content /\ pc # "collector") =>
        /\ "CollectorAgent" \in Range(state.errors)
        /\ state.next_agent # "COMPLETE"
        /\ \A r \in DOMAIN heap : ~Persisted(heap[r].id)

\* C3 (amended): a document with a title and empty content passes the
\* Collector without an error (full_text is set and the Analyzer is next);
\* a run that reaches the end is Complete and has issued an upsert for
\* every claim extracted from the title.
C3_TitleOnlyPasses ==
    (Started /\ raw_data.title /\ ~raw_data.content /\ pc # "collector") =>
        /\ "CollectorAgent" \notin Range(state.errors)
        /\ "CollectorAgent" \in Range(state.processed_by)
        /\ raw_data.full_text
        /\ Finished =>
             /\ state.next_agent = "COMPLETE"
             /\ \A i \in DOMAIN state.claims :
                  \E k \in DOMAIN state.graph_operations :
                      /\ state.graph_operations[k].node_type = "Claim"
                      /\ state.graph_operations[k].node_id = heap[state.claims[i]].id

C3_Witness ==
    /\ Finished /\ raw_data.title /\ ~raw_data.content
    /\ state.claims # <<>>
    /\ \A r \in DOMAIN heap : Persisted(heap[r].id)

C5_RouteFromCrossReference ==
    [][ /\ (pc = "cross_reference" /\ pc' # "raised") =>
            IF HasContradictions(state', heap')
            THEN pc' = "bias_detector"
            ELSE pc' = "graph_builder"
        /\ pc = "bias_detector" => HasContradictions(state, heap)
      ]_vars

C5_Witness ==
    /\ pc = "graph_builder"
    /\ trace = <<"collector", "analyzer", "cross_reference">>
    /\ \E r \in DOMAIN heap : heap[r].similar_claims # <<>>

\* C6: when Analyzer, CrossReferencer or BiasDetector raises, the error is
\* recorded in the state's error list and the next stage is the
\* GraphBuilder.
C6_ErrorRoutesToGraphBuilder ==
    [][ ( \/ pc = "analyzer" /\ Len(state'.errors) > Len(state.errors)
          \/ pc \in {"cross_reference", "bias_detector"} /\ pc' = "raised" )
        => /\ pc' = "graph_builder"
           /\ Len(state'.errors) > Len(state.errors)
      ]_vars

\* the Analyzer extracted 3 claims and the store holds no claim similar to
\* any of them (the store is as the run found it until the GraphBuilder
\* writes)
ThreeClaimsNoneSimilar ==
    /\ Len(heap) = 3
    /\ "AnalyzerAgent" \in Range(state.processed_by)
    /\ \A r \in DOMAIN heap : find_similar_claims(store, heap[r].text, 5) = <<>>

C8_ConfidenceClamped ==
    /\ \A r \in DOMAIN heap :
         (pc # "raised" /\ heap[r].similar_claims # <<>>) =>
             heap[r].confidence \in 0..100
    /\ \A i \in DOMAIN store.claims : store.claims[i].confidence \in 0..100

\* C9: upserting the same entity (name and type) or the same claim (text)
\* again, from the same document or from another one, leaves one node: no
\* two nodes of the store share an id, a claim text or an entity name and
\* type.
C9_OneNodePerId ==
    /\ \A i, j \in DOMAIN store.claims :
         (store.claims[i].id = store.claims[j].id
            \/ store.claims[i].text = store.claims[j].text) => i = j
    /\ \A i, j \in DOMAIN store.entities :
         (store.entities[i].id = store.entities[j].id
            \/ (store.entities[i].name = store.entities[j].name
                  /\ store.entities[i].type = store.entities[j].type)) => i = j
    /\ \A i, j \in DOMAIN store.sources :
         store.sources[i].id = store.sources[j].id => i = j

\* the earlier run's claim TA and entity Fed were upserted again by this
\* run (more than once, the lists holding each item several times)
C9_Witness ==
    /\ Finished
    /\ raw_data.source = "" /\ store.sources # <<>>
    /\ Len(store.claims) = 1 /\ store.claims[1].confidence = 150
    /\ Len(store.entities) = 1
    /\ Cardinality({k \in DOMAIN state.graph_operations :
           state.graph_operations[k] = GraphOperation("CREATE", "Claim", GenerateId(TA))}) > 1

BothDone ==
    /\ workers # <<>>
    /\ \A w \in DOMAIN workers : workers[w].next > Len(workers[w].steps)

NoWriteRaised == \A w \in DOMAIN workers : ~workers[w].failed

\* the node values the workers' batches write with the store call `call`
Written(call) ==
    UNION {{workers[w].steps[k].arg :
               k \in {n \in DOMAIN workers[w].steps : workers[w].steps[n].call = call}} :
           w \in DOMAIN workers}

AsClaimNode(c) == [id |-> c.id, text |-> c.text, confidence |-> c.confidence]
AsEntityNode(e) == [id |-> e.id, name |-> e.name, type |-> e.type,
                    confidence |-> e.confidence]

Applied(graph, step) ==
    CASE step.call = "create_source" -> HasNode(graph.sources, step.arg)
      [] step.call = "create_entity" -> HasNode(graph.entities, step.arg.id)
      [] step.call = "create_claim"  -> HasNode(graph.claims, step.arg.id)
      [] step.call = "link_claim_to_entity" ->
            (HasNode(graph.claims, step.arg.claim)
                /\ HasNode(graph.entities, step.arg.entity))
            => [claim |-> step.arg.claim, entity |-> step.arg.entity] \in graph.about
      [] step.call = "link_claim_contradiction" ->
            (HasNode(graph.claims, step.arg.claim1)
                /\ HasNode(graph.claims, step.arg.claim2))
            => \E e \in graph.contradicts :
                  {e.from, e.to} = {step.arg.claim1, step.arg.claim2}
      [] OTHER -> TRUE

\* C17: GraphBuilderAgent.process never fails the pipeline: whichever of
\* its store writes raise, every write that did not raise is applied (the
\* writes after a failed one included), the agent's log entry is appended
\* and the run ends with next_agent = 'COMPLETE'.
C17_GraphBuilderNeverFails ==
    [][pc = "graph_builder" =>
        /\ pc' = "END"
        /\ state'.next_agent = "COMPLETE"
        /\ state'.processing_log # <<>>
        /\ state'.processing_log[Len(state'.processing_log)] = "GraphBuilderAgent"
        /\ Len(state'.processing_log) > Len(state.processing_log)
        /\ LET steps == GraphBuilderSteps(state, heap)
           IN \A i \in DOMAIN steps :
                 steps[i].op \notin write_errors' => Applied(store', steps[i])]_vars

\* the source write raised, and the entity and the claim written after it
\* are in the store all the same
C17_Witness ==
    /\ Finished
    /\ state.next_agent = "COMPLETE"
    /\ write_errors = {GraphOperation("CREATE", "Source", "u1")}
    /\ ~HasNode(store.sources, "u1")
    /\ state.entities # <<>>
    /\ state.claims # <<>>
    /\ \A i \in DOMAIN state.entities : HasNode(store.entities, state.entities[i].id)
    /\ \A i \in DOMAIN state.claims : Persisted(heap[state.claims[i]].id)

\* C18: after the GraphBuilder ran, every operation it recorded stands for
\* a store write it issued (one entry per write), and a write was issued
\* for every Event the state holds.
C18_EveryOperationIsAWrite ==
    [][pc = "graph_builder" =>
        LET steps == GraphBuilderSteps(state, heap)
            issued == {i \in DOMAIN steps : steps[i].call # "none"}
        IN /\ Len(state'.graph_operations) = Cardinality(issued)
           /\ \A i \in DOMAIN state.events :
                 \E k \in issued : steps[k].arg = state.events[i]]_vars

(***************************************************************************)
(* The article consumer (streaming/consumer.py) and its two callers: the   *)
(* batch run (tests/process_batch.py) and the continuous worker            *)
(* (tests/scheduler.py).  A message is named by its offset + 1; offsets    *)
(* below `committed` are acknowledged to the broker.                       *)
(***************************************************************************)
MaxMessages == 3

\* max_messages=100 of the worker's consume call
SchedulerBatch == 100

\* max_messages of the batch run: int(sys.argv[1]); None is the default of
\* consume
BatchSizes == {None, 0, 1, 2}

\* how a callback can end.  "ok": process_article returned a final state;
\* "failed": it raised and the callback's own try/except logged it;
\* "raised": the callback itself raised an Exception; "interrupted": a
\* KeyboardInterrupt arrived while it ran.
\* handle_message has its whole body inside try/except Exception
handle_message == {"ok", "failed", "interrupted"}

\* the worker's callback reads message_value.get(...) before its try; the
\* worker replaces the SIGINT handler, so no KeyboardInterrupt is raised
process_article == {"ok", "failed", "raised"}

\* the pipeline and the analytics are not part of the consumer's steps
kafka_frame == <<pc, docs, raw_data, state, heap, store, trace, workers,
                 write_errors, scorer, detector, analytics>>

KafkaConsumerClient(caller, max_messages, topic) ==
    [ caller       |-> caller,
      max_messages |-> max_messages,
      topic        |-> topic,      \* messages in the topic
      position     |-> 0,          \* messages the iterator has yielded
      committed    |-> 0,          \* messages acknowledged to the broker
      count        |-> 0,          \* `count` of the consume call under way
      handled      |-> <<>>,       \* how the run for each yielded message ended
      running      |-> TRUE,       \* self.running of the worker
      at           |-> "start",
      result       |-> None ]      \* what the last consume call returned

\* enable_auto_commit=True: the consumer acknowledges its position, which
\* is one past the last message the iterator yielded
AutoCommit(k) == [k EXCEPT !.committed = k.position]

\* `if max_messages and count >= max_messages`
LimitReached(max_messages, count) ==
    max_messages # None /\ max_messages # 0 /\ count >= max_messages

InitKafka ==
    /\ pc = "idle"
    /\ docs = 0
    /\ raw_data = NoArticle
    /\ state = create_initial_state(NoArticle)
    /\ heap = <<>>
    /\ store = EmptyStore
    /\ trace = <<>>
    /\ workers = <<>>
    /\ write_errors = {}
    /\ scorer = <<>>
    /\ detector = <<>>
    /\ analytics = <<>>
    /\ \E topic \in 0..MaxMessages :
         \/ \E n \in BatchSizes : kafka = KafkaConsumerClient("batch", n, topic)
         \/ kafka = KafkaConsumerClient("scheduler", SchedulerBatch, topic)

\* consume is called: by main of the batch run once, by the worker's loop
\* each time round while self.running
ConsumeCall ==
    /\ \/ kafka.at = "start"
       \/ kafka.caller = "scheduler" /\ kafka.at = "returned"
    /\ kafka.running
    /\ kafka' = [kafka EXCEPT !.count = 0, !.at = "iterating", !.result = None]
    /\ UNCHANGED kafka_frame

\* `for message in self.consumer`: the iterator yields the next message
\* (it blocks while there is none); the poll behind it may auto-commit
Poll ==
    /\ kafka.at = "iterating"
    /\ kafka.position < kafka.topic
    /\ \E commit \in BOOLEAN :
         LET k == IF commit THEN AutoCommit(kafka) ELSE kafka
         IN kafka' = [k EXCEPT !.position = @ + 1,
                               !.handled = Append(@, "processing"),
                               !.at = "callback"]
    /\ UNCHANGED kafka_frame

\* callback(message.value) ends
Callback ==
    /\ kafka.at = "callback"
    /\ \E outcome \in (IF kafka.caller = "batch" THEN handle_message
                       ELSE process_article) :
         LET k == [kafka EXCEPT !.handled[kafka.position] = outcome]
         IN CASE outcome \in {"ok", "failed"} ->
                   IF LimitReached(k.max_messages, k.count + 1)
                   THEN kafka' = [k EXCEPT !.count = @ + 1, !.at = "returned",
                                           !.result = k.count + 1]
                   ELSE kafka' = [k EXCEPT !.count = @ + 1, !.at = "iterating"]
              [] outcome = "raised" -> kafka' = [k EXCEPT !.at = "iterating"]
              [] OTHER -> kafka' = [k EXCEPT !.at = "returned", !.result = k.count]
    /\ UNCHANGED kafka_frame

\* KeyboardInterrupt while the iterator waits: consume returns count
Interrupt ==
    /\ kafka.caller = "batch"
    /\ kafka.at = "iterating"
    /\ kafka' = [kafka EXCEPT !.at = "returned", !.result = kafka.count]
    /\ UNCHANGED kafka_frame

\* SIGINT/SIGTERM: _signal_handler
Signal ==
    /\ kafka.caller = "scheduler"
    /\ kafka.running
    /\ kafka.at # "closed"
    /\ kafka' = [kafka EXCEPT !.running = FALSE]
    /\ UNCHANGED kafka_frame

\* consumer.close(): in the finally of the batch run, in shutdown() of the
\* worker once `while self.running` ends.  Closing commits the position.
Close ==
    /\ \/ kafka.caller = "batch" /\ kafka.at = "returned"
       \/ kafka.caller = "scheduler" /\ kafka.at \in {"start", "returned"}
            /\ ~kafka.running
    /\ kafka' = [AutoCommit(kafka) EXCEPT !.at = "closed"]
    /\ UNCHANGED kafka_frame

NextKafka ==
    \/ ConsumeCall
    \/ Poll
    \/ Callback
    \/ Interrupt
    \/ Signal
    \/ Close

SpecKafka == InitKafka /\ [][NextKafka]_vars

\* C11: a message is acknowledged to the broker (its offset committed) only
\* after the pipeline run for it reached a terminal state successfully.
C11_AckOnlyAfterSuccess ==
    \A m \in 1..kafka.committed : kafka.handled[m] = "ok"

MaxCount == 2

\* total_claims of the aggregates: one for each branch of the volume score,
\* and small ones, which the counts can exceed
Totals == {1, 12, 60}

\* what the aggregate query can give back: the call raises, no row, or one
\* row; count(DISTINCT other) and count(DISTINCT e2) count the neighbours
\* of the claims, not the claims, and so are not bounded by total_claims
QueryResults ==
    {[kind |-> "raise"], [kind |-> "empty"]}
    \cup [kind : {"row"}, total_claims : Totals \cup {0},
          contradicted_claims : 0..MaxCount,
          cross_validated_claims : 0..MaxCount,
          avg_confidence : {0, 100}]

\* Python's None where the other values are dicts or objects
Nothing == [kind |-> "None"]

\* None, or the row whose total_claims is positive
_get_source_data(q) ==
    IF q.kind = "row" /\ q.total_claims > 0 THEN q ELSE Nothing

Den(total) == 4000 * total

_calculate_accuracy(d) ==
    LET base_score == 100 * d.cross_validated_claims * 4000
        contradiction_penalty == Min(d.contradicted_claims * 5, 30) * Den(d.total_claims)
        final_score == Max(base_score - contradiction_penalty, 0)
    IN Min(final_score, 100 * Den(d.total_claims))

_calculate_consistency(d) ==
    LET base_score == 100 * (d.total_claims - d.contradicted_claims) * 4000
        confidence_bonus == IF d.avg_confidence > 80 THEN 10 ELSE 0
    IN Min(base_score + confidence_bonus * Den(d.total_claims),
           100 * Den(d.total_claims))

_calculate_bias(d) ==
    Min(50 * Den(d.total_claims) + 50 * d.cross_validated_claims * 4000,
        100 * Den(d.total_claims))

\* volume_score * 40
VolumeScore40(total) ==
    IF total < 10 THEN 2000 + 100 * total
    ELSE IF total < 50 THEN 3000 + 15 * (total - 10)
    ELSE 3600 + 4 * Min(total - 50, 100)

\* volume_score * 0.6 + avg_confidence * 100 * 0.4
_calculate_reliability(d) ==
    Min((3 * VolumeScore40(d.total_claims) + 80 * d.avg_confidence)
            * 20 * d.total_claims,
        100 * Den(d.total_claims))

\* variant: the four sub-scores weigh the same
overall_score_Equal(accuracy, consistency, bias, reliability) ==
    (accuracy \div 4) + (consistency \div 4) + (bias \div 4) + (reliability \div 4)

\* accuracy * 0.40 + consistency * 0.25 + bias * 0.20 + reliability * 0.15,
\* the weights as 2/5, 1/4, 1/5 and 3/20; every division is exact, the
\* numerators being multiples of 20
overall_score(accuracy, consistency, bias, reliability) ==
    2 * (accuracy \div 5) + (consistency \div 4) + (bias \div 5)
    + 3 * (reliability \div 20)

\* round(x, 2), in hundredths
Round2(num, den) == DivRound(num, den \div 100)

\* the cached overall_score is the rounded one, the current one is not
_determine_trend(cache, current_score, den) ==
    IF cache = Nothing THEN "stable"
    ELSE LET diff == current_score - cache.overall_score * (den \div 100)
         IN IF diff > 5 * den THEN "improving"
            ELSE IF diff < -5 * den THEN "declining"
            ELSE "stable"

\* the labels, without the score printed into the first kind of them
_identify_strengths_weaknesses(accuracy, consistency, bias, reliability, den) ==
    LET scores == <<[metric |-> "accuracy", score |-> accuracy],
                    [metric |-> "consistency", score |-> consistency],
                    [metric |-> "bias", score |-> bias],
                    [metric |-> "reliability", score |-> reliability]>>
        IsHigh(m) == m.score >= 80 * den
        IsLow(m) == m.score < 60 * den
        High(m) == <<"High", m.metric>>
        Low(m) == <<"Low", m.metric>>
        If(c, label) == IF c THEN <<label>> ELSE <<>>
    IN [strengths |->
            Map(High, SelectSeq(scores, IsHigh))
            \o If(consistency >= 90 * den, <<"Very consistent reporting">>)
            \o If(accuracy >= 85 * den, <<"Well cross-validated claims">>)
            \o If(bias >= 80 * den, <<"Balanced perspectives">>),
        weaknesses |->
            Map(Low, SelectSeq(scores, IsLow))
            \o If(consistency < 60 * den, <<"Frequent self-contradictions">>)
            \o If(accuracy < 50 * den, <<"Many claims lack corroboration">>)
            \o If(reliability < 60 * den, <<"Limited reporting volume">>)]

_create_default_score ==
    [overall_score |-> 5000, accuracy_score |-> 5000, consistency_score |-> 5000,
     bias_score |-> 5000, reliability_score |-> 5000,
     total_claims |-> 0, contradicted_claims |-> 0, cross_validated_claims |-> 0,
     average_confidence |-> 0, score_trend |-> "stable", strengths |-> <<>>,
     weaknesses |-> << <<"Insufficient data for scoring">> >>]

\* the SourceCredibility score_source returns for the query result q
score_source(cache, q) ==
    LET d == _get_source_data(q)
    IN IF d = Nothing THEN _create_default_score
       ELSE LET den == Den(d.total_claims)
                accuracy == _calculate_accuracy(d)
                consistency == _calculate_consistency(d)
                bias == _calculate_bias(d)
                reliability == _calculate_reliability(d)
                overall == overall_score(accuracy, consistency, bias, reliability)
                sw == _identify_strengths_weaknesses(accuracy, consistency, bias,
                                                     reliability, den)
            IN [overall_score |-> Round2(overall, den),
                accuracy_score |-> Round2(accuracy, den),
                consistency_score |-> Round2(consistency, den),
                bias_score |-> Round2(bias, den),
                reliability_score |-> Round2(reliability, den),
                total_claims |-> d.total_claims,
                contradicted_claims |-> d.contradicted_claims,
                cross_validated_claims |-> d.cross_validated_claims,
                average_confidence |-> d.avg_confidence,
                score_trend |-> _determine_trend(cache, overall, den),
                strengths |-> sw.strengths,
                weaknesses |-> sw.weaknesses]

\* variant: the default score is cached as well
source_cache_Always(cache, q, credibility) == credibility

\* self.source_cache[source_name] after score_source: the early return for
\* missing data comes before the cache is written
source_cache(cache, q, credibility) ==
    IF _get_source_data(q) = Nothing THEN cache ELSE credibility

InitScorer ==
    /\ pc = "idle"
    /\ docs = 0
    /\ raw_data = NoArticle
    /\ state = create_initial_state(NoArticle)
    /\ heap = <<>>
    /\ store = EmptyStore
    /\ trace = <<>>
    /\ workers = <<>>
    /\ write_errors = {}
    /\ kafka = <<>>
    /\ detector = <<>>
    /\ analytics = <<>>
    /\ scorer = [cache |-> Nothing, query |-> [kind |-> "empty"], result |-> Nothing]

\* score_source(source_name) is called for the one source of the model
ScoreSource ==
    /\ \E q \in QueryResults :
         LET credibility == score_source(scorer.cache, q)
         IN scorer' = [cache |-> source_cache(scorer.cache, q, credibility),
                       query |-> q,
                       result |-> credibility]
    /\ UNCHANGED <<pc, docs, raw_data, state, heap, store, trace, workers,
                   write_errors, kafka, detector, analytics>>

NextScorer == ScoreSource

SpecScorer == InitScorer /\ [][NextScorer]_vars

\* C14: the overall score returned is 0.40 * accuracy + 0.25 * consistency
\* + 0.20 * bias + 0.15 * reliability of the sub-scores returned with it,
\* within the rounding to two decimals (0.01), the default score included.
C14_OverallIsWeightedSum ==
    scorer.result # Nothing =>
        LET r == scorer.result
            weighted == 40 * r.accuracy_score + 25 * r.consistency_score
                        + 20 * r.bias_score + 15 * r.reliability_score
        IN /\ 100 * r.overall_score - weighted <= 100
           /\ weighted - 100 * r.overall_score <= 100

\* a score computed from twelve claims whose sub-scores had to be rounded
C14_Witness ==
    /\ scorer.result # Nothing
    /\ scorer.result.total_claims = 12
    /\ scorer.result.cross_validated_claims = 1
    /\ scorer.result.accuracy_score = 833
    /\ scorer.result.overall_score # 5000

\* C15: for every aggregate with at least one claim, whatever the counts,
\* all five scores returned are within 0..100.
C15_ScoresInRange ==
    (scorer.result # Nothing /\ scorer.result.total_claims >= 1) =>
        \A x \in {scorer.result.overall_score, scorer.result.accuracy_score,
                  scorer.result.consistency_score, scorer.result.bias_score,
                  scorer.result.reliability_score} : x \in 0..10000

\* C20: when the store returns no claims for the source, or the read
\* fails, score_source returns the neutral default and leaves the cached
\* score of the source as it was.
C20_DefaultLeavesCache ==
    [][_get_source_data(scorer'.query) = Nothing =>
        /\ scorer'.result.overall_score = 5000
        /\ scorer'.result.accuracy_score = 5000
        /\ scorer'.result.consistency_score = 5000
        /\ scorer'.result.bias_score = 5000
        /\ scorer'.result.reliability_score = 5000
        /\ scorer'.result.total_claims = 0
        /\ scorer'.result.contradicted_claims = 0
        /\ scorer'.result.cross_validated_claims = 0
        /\ scorer'.result.score_trend = "stable"
        /\ scorer'.result.weaknesses = << <<"Insufficient data for scoring">> >>
        /\ scorer'.cache = scorer.cache]_vars

\* a score is cached, then the read fails: the default is returned and the
\* cached score is still there
C20_Witness ==
    /\ scorer.query.kind = "raise"
    /\ scorer.result = _create_default_score
    /\ scorer.cache # Nothing
    /\ scorer.cache.total_claims = 12

(***************************************************************************)
(* The contradiction detector (analytics/contradiction_detector.py).       *)
(* A claim text is its lower-case words and the numbers the regular        *)
(* expression finds in it; scores and confidences are in hundredths.       *)
(***************************************************************************)
\* the fields of the dataclass Contradiction in the order of the class
\* body, with whether the field is given a default value
ContradictionFields ==
    <<[name |-> "claim1_id", default |-> FALSE],
      [name |-> "claim1_text", default |-> FALSE],
      [name |-> "claim1_confidence", default |-> FALSE],
      [name |-> "claim1_source", default |-> TRUE],
      [name |-> "claim1_timestamp", default |-> TRUE],
      [name |-> "claim2_id", default |-> FALSE],
      [name |-> "claim2_text", default |-> FALSE],
      [name |-> "claim2_confidence", default |-> FALSE],
      [name |-> "claim2_source", default |-> TRUE],
      [name |-> "claim2_timestamp", default |-> TRUE],
      [name |-> "contradiction_score", default |-> FALSE],
      [name |-> "contradiction_type", default |-> FALSE],
      [name |-> "entities_involved", default |-> FALSE],
      [name |-> "severity", default |-> FALSE],
      [name |-> "detected_at", default |-> FALSE],
      [name |-> "explanation", default |-> TRUE]>>

\* @dataclass builds __init__ from the fields when the class statement
\* runs, and raises TypeError (non-default argument follows default
\* argument) when a field without a default comes after one with a default
DataclassDefined(fields) ==
    \A i, j \in DOMAIN fields : (i < j /\ fields[i].default) => fields[j].default

DetectorTexts ==
    {[words |-> <<"inflation", "rose", "to">>, numbers |-> <<5>>],
     [words |-> <<"inflation", "rose", "to">>, numbers |-> <<9>>],
     [words |-> <<"output", "rose", "from", "to">>, numbers |-> <<10, 12>>],
     [words |-> <<"talks", "held", "before", "summit">>, numbers |-> <<>>],
     [words |-> <<"talks", "held", "after", "summit">>, numbers |-> <<>>],
     [words |-> <<"deal", "was", "confirmed">>, numbers |-> <<>>],
     [words |-> <<"deal", "was", "not", "confirmed">>, numbers |-> <<>>],
     [words |-> <<"growth", "flat">>, numbers |-> <<>>]}

\* what the cross-encoder says of the ordered pairs (text1, text2) and
\* (text2, text1); model FALSE: self.model is None
NLIAnswers ==
    {[model |-> FALSE, forward |-> 0, backward |-> 0]}
    \cup [model : {TRUE}, forward : {0, 95}, backward : {0, 95}]

_detect_numerical_contradiction(text1, text2) ==
    IF \E i \in DOMAIN text1.numbers, j \in DOMAIN text2.numbers :
          LET n1 == text1.numbers[i]
              n2 == text2.numbers[j]
          IN n1 # n2 /\ 5 * (Max(n1, n2) - Min(n1, n2)) > Max(n1, n2)
    THEN 80 ELSE None

\* `word in text` is taken on whole words
_detect_temporal_contradiction(text1, text2) ==
    LET before_after_pairs ==
            {<<"before", "after">>, <<"earlier", "later">>, <<"first", "last">>,
             <<"previous", "next">>, <<"past", "future">>}
        In(word, text) == Contains(text.words, <<word>>)
    IN IF \E p \in before_after_pairs :
             \/ In(p[1], text1) /\ In(p[2], text2)
             \/ In(p[2], text1) /\ In(p[1], text2)
       THEN 75 ELSE None

_detect_factual_contradiction(text1, text2) ==
    LET negation_indicators ==
            {<< <<"is">>, <<"is", "not">> >>, << <<"was">>, <<"was", "not">> >>,
             << <<"has">>, <<"has", "not">> >>, << <<"did">>, <<"did", "not">> >>,
             << <<"will">>, <<"will", "not">> >>, << <<"can">>, <<"cannot">> >>,
             << <<"confirmed">>, <<"denied">> >>, << <<"approved">>, <<"rejected">> >>,
             << <<"agreed">>, <<"disagreed">> >>, << <<"yes">>, <<"no">> >>,
             << <<"true">>, <<"false">> >>}
    IN IF \E p \in negation_indicators :
             \/ Contains(text1.words, p[1]) /\ Contains(text2.words, p[2])
             \/ Contains(text1.words, p[2]) /\ Contains(text2.words, p[1])
       THEN 70 ELSE None

_create_contradiction(claim1, claim2, score, contradiction_type) ==
    LET twice_avg_confidence == claim1.confidence + claim2.confidence
    IN [kind |-> "Contradiction",
        claim1_id |-> claim1.id,
        claim2_id |-> claim2.id,
        contradiction_score |-> score,
        contradiction_type |-> contradiction_type,
        severity |-> IF score > 90 /\ twice_avg_confidence > 160 THEN "critical"
                     ELSE IF score > 80 \/ twice_avg_confidence > 140 THEN "high"
                     ELSE IF score > 70 THEN "medium"
                     ELSE "low"]

\* nli_score: what _detect_nli_contradiction gives for (text1, text2), None
\* without a model
_analyze_claim_pair(claim1, claim2, nli_score) ==
    IF claim1.id = claim2.id THEN Nothing
    ELSE IF nli_score # None /\ nli_score > 70
    THEN _create_contradiction(claim1, claim2, nli_score, "semantic")
    ELSE IF _detect_numerical_contradiction(claim1.text, claim2.text) # None
    THEN _create_contradiction(claim1, claim2,
            _detect_numerical_contradiction(claim1.text, claim2.text), "numerical")
    ELSE IF _detect_temporal_contradiction(claim1.text, claim2.text) # None
    THEN _create_contradiction(claim1, claim2,
            _detect_temporal_contradiction(claim1.text, claim2.text), "temporal")
    ELSE IF _detect_factual_contradiction(claim1.text, claim2.text) # None
    THEN _create_contradiction(claim1, claim2,
            _detect_factual_contradiction(claim1.text, claim2.text), "factual")
    ELSE Nothing

\* what a caller gets from the detector for the pair: the module's class
\* statements run when it is imported, before any method can be called
AnalyzeAfterImport(claim1, claim2, nli_score) ==
    IF DataclassDefined(ContradictionFields)
    THEN _analyze_claim_pair(claim1, claim2, nli_score)
    ELSE [kind |-> "TypeError"]

\* the body of the pair loop of detect_contradictions: a pair is analysed
\* only when set(claim1['entities']) & set(claim2['entities']) is not empty
DetectPair(claim1, claim2, nli_score) ==
    LET common_entities == claim1.entities \cap claim2.entities
    IN IF common_entities = {} THEN Nothing
       ELSE _analyze_claim_pair(claim1, claim2, nli_score)

DetectAfterImport(claim1, claim2, nli_score) ==
    IF DataclassDefined(ContradictionFields)
    THEN DetectPair(claim1, claim2, nli_score)
    ELSE [kind |-> "TypeError"]

InitDetector ==
    /\ pc = "idle"
    /\ docs = 0
    /\ raw_data = NoArticle
    /\ state = create_initial_state(NoArticle)
    /\ heap = <<>>
    /\ store = EmptyStore
    /\ trace = <<>>
    /\ workers = <<>>
    /\ write_errors = {}
    /\ kafka = <<>>
    /\ scorer = <<>>
    /\ detector = [analysed |-> FALSE]
    /\ analytics = <<>>

\* two claims of the store are compared, in both orders (once in a
\* behaviour: a comparison does not depend on the ones before it)
AnalyzeClaimPair ==
    /\ ~detector.analysed
    /\ \E text1 \in DetectorTexts, text2 \in DetectorTexts,
          confidence1 \in {60, 90}, confidence2 \in {60, 90}, nli \in NLIAnswers,
          entities2 \in {{"ecb"}, {"fed", "ecb"}} :
         LET claim1 == [id |-> 1, text |-> text1, confidence |-> confidence1,
                        entities |-> {"fed"}]
             claim2 == [id |-> 2, text |-> text2, confidence |-> confidence2,
                        entities |-> entities2]
         IN detector' =
              [analysed |-> TRUE,
               claim1 |-> claim1,
               claim2 |-> claim2,
               nli |-> nli,
               pair |-> DetectAfterImport(claim1, claim2,
                              IF nli.model THEN nli.forward ELSE None),
               forward |-> AnalyzeAfterImport(claim1, claim2,
                              IF nli.model THEN nli.forward ELSE None),
               backward |-> AnalyzeAfterImport(claim2, claim1,
                              IF nli.model THEN nli.backward ELSE None)]
    /\ UNCHANGED <<pc, docs, raw_data, state, heap, store, trace, workers,
                   write_errors, kafka, scorer, analytics>>

NextDetector == AnalyzeClaimPair

SpecDetector == InitDetector /\ [][NextDetector]_vars

\* C13: analysing the pair (A, B) and the pair (B, A) either both report no
\* contradiction, or both report a contradiction of the same type, score
\* and severity, with and without the language-inference model.
C13_PairOrderIrrelevant ==
    detector.analysed =>
        \/ detector.forward = Nothing /\ detector.backward = Nothing
        \/ /\ detector.forward.kind = "Contradiction"
           /\ detector.backward.kind = "Contradiction"
           /\ detector.forward.contradiction_type = detector.backward.contradiction_type
           /\ detector.forward.contradiction_score = detector.backward.contradiction_score
           /\ detector.forward.severity = detector.backward.severity

\* C16: when no semantic contradiction is reported first, the pair is
\* reported as a contradiction of type 'numerical' with score 0.8 exactly
\* when some number of the first claim and some number of the second differ
\* by more than 20% of the larger one.
C16_NumericalContradiction ==
    (detector.analysed /\ ~(detector.nli.model /\ detector.nli.forward > 70)) =>
        LET differ ==
                \E i \in DOMAIN detector.claim1.text.numbers,
                   j \in DOMAIN detector.claim2.text.numbers :
                    LET n1 == detector.claim1.text.numbers[i]
                        n2 == detector.claim2.text.numbers[j]
                    IN (n1 - n2) * 5 > Max(n1, n2) \/ (n2 - n1) * 5 > Max(n1, n2)
        IN differ <=> /\ detector.forward.kind = "Contradiction"
                      /\ detector.forward.contradiction_type = "numerical"
                      /\ detector.forward.contradiction_score = 80

(***************************************************************************)
(* The processing log and the list reducer                                 *)
(***************************************************************************)
\* C21: every stage that runs appends exactly one entry to the processing
\* log, so the final log has one entry per executed stage, in execution
\* order.
C21_OneLogEntryPerStage ==
    LET AgentOf(node) ==
            CASE node = "collector" -> "CollectorAgent"
              [] node = "analyzer" -> "AnalyzerAgent"
              [] node = "cross_reference" -> "CrossReferenceAgent"
              [] node = "bias_detector" -> "BiasDetectorAgent"
              [] OTHER -> "GraphBuilderAgent"
    IN Finished => state.processing_log = Map(AgentOf, trace)

\* C22: for an accumulating list field, the value after a stage's result is
\* merged is the value before the stage followed by the stage's new items:
\* processed_by after the Collector, the processing log after the
\* GraphBuilder.
C22_AppendOnlyMerge ==
    [][/\ (pc = "collector" /\ CollectorValid(raw_data)) =>
            state'.processed_by = Append(state.processed_by, "CollectorAgent")
       /\ pc = "graph_builder" =>
            state'.processing_log = Append(state.processing_log, "GraphBuilderAgent")]_vars

(***************************************************************************)
(* One claim cross-referenced against a store (agents/cross_reference.py). *)
(* The store's claim nodes carry a verification_status property, which     *)
(* create_claim sets to 'UNVERIFIED' and which no query of Neo4jClient     *)
(* returns; the model keeps it beside the store, as the set of ids of the  *)
(* nodes whose status is 'VERIFIED'.                                       *)
(***************************************************************************)
InitSingle ==
    /\ pc = "idle"
    /\ docs = 0
    /\ raw_data = NoArticle
    /\ state = create_initial_state(NoArticle)
    /\ heap = <<>>
    /\ store = EmptyStore
    /\ trace = <<>>
    /\ workers = <<>>
    /\ write_errors = {}
    /\ kafka = <<>>
    /\ scorer = <<>>
    /\ detector = <<>>

single_frame == <<pc, docs, raw_data, state, heap, store, trace, workers,
                  write_errors, kafka, scorer, detector>>

InitConfidence == InitSingle /\ analytics = [call |-> "none"]

StoredTexts == {TA, TB, TC}

\* the claim nodes of a store that earlier runs wrote, in a fixed order
RECURSIVE StoreOf(_, _)
StoreOf(texts, graph) ==
    IF texts = <<>> THEN graph
    ELSE StoreOf(Tail(texts), create_claim(graph, _create_claim(ClaimData(Head(texts), 70))))

\* the body of the loop of CrossReferenceAgent.process for one claim, and
\* the CONTRADICTS links GraphBuilderAgent.process then makes for it
CrossReferenceClaim ==
    /\ analytics.call = "none"
    /\ \E text \in StoredTexts, confidence \in {0, 10, 50, 90, 100},
          stored \in SUBSET StoredTexts :
         \E verified \in SUBSET {GenerateId(t) : t \in stored} :
           LET graph == StoreOf(SelectSeq(<<TA, TB, TC>>, LAMBDA t : t \in stored),
                                EmptyStore)
               claim == _create_claim(ClaimData(text, confidence))
               loop == CrossReferenceLoop(<<claim>>, <<1>>, 1, {}, graph)
           IN analytics' = [call |-> "cross_reference",
                            claim |-> claim,
                            graph |-> graph,
                            verified |-> verified,
                            result |-> loop.hp[1],
                            links |-> SelectSeq(ClaimSteps(loop.hp[1]),
                                        LAMBDA step :
                                          step.call = "link_claim_contradiction")]
    /\ UNCHANGED single_frame

NextConfidence == CrossReferenceClaim

SpecConfidence == InitConfidence /\ [][NextConfidence]_vars

\* C24: the new confidence of a claim that has similar claims is
\* min(1, old + 0.2) when at least one similar claim is verified in the
\* store, and max(0, old - 0.15 * number of contradictions) otherwise; the
\* boost and the penalty are never both applied.
C24_BoostOrPenalty ==
    (analytics.call = "cross_reference" /\ analytics.result.similar_claims # <<>>) =>
        LET similar == analytics.result.similar_claims
            old == analytics.claim.confidence
        IN analytics.result.confidence =
             IF \E i \in DOMAIN similar : similar[i].id \in analytics.verified
             THEN Min(100, old + 20)
             ELSE Max(0, old - 15 * Len(analytics.result.contradictions))

\* C23: a pair of loaded claims with no common entity yields no
\* contradiction; a pair with a common entity yields the contradiction of
\* the first method that fires in the order semantic, numerical, temporal,
\* factual, and none when no method fires.
C23_FirstMethodDecides ==
    detector.analysed =>
        LET text1 == detector.claim1.text
            text2 == detector.claim2.text
            fired ==
                IF detector.nli.model /\ detector.nli.forward > 70 THEN "semantic"
                ELSE IF _detect_numerical_contradiction(text1, text2) # None
                THEN "numerical"
                ELSE IF _detect_temporal_contradiction(text1, text2) # None
                THEN "temporal"
                ELSE IF _detect_factual_contradiction(text1, text2) # None
                THEN "factual"
                ELSE "none"
        IN IF detector.claim1.entities \cap detector.claim2.entities = {}
              \/ fired = "none"
           THEN detector.pair = Nothing
           ELSE /\ detector.pair.kind = "Contradiction"
                /\ detector.pair.contradiction_type = fired

(***************************************************************************)
(* The claims of one article verified against the article                  *)
(* (agents/collector.py, agents/bias_detector.py).  Title and content are  *)
(* sequences of lower-case words here.                                     *)
(***************************************************************************)
\* "\n\n".join(parts): the separator adds no word (no author in the model)
_prepare_text(raw) == raw.title \o raw.content

ArticleTitles == {<<>>, TD}

ArticleContents == {TA, TB, TC, SubSeq(TA, 1, 3), SubSeq(TB, 5, 7), TC \o TA}

InitVerify == InitSingle /\ analytics = [call |-> "none"]

\* the Collector on the article, then the BiasDetector on the state with
\* the one claim the Analyzer extracted
VerifyClaims ==
    /\ analytics.call = "none"
    /\ \E title \in ArticleTitles, content \in ArticleContents,
          text \in {TA, TB, TC, TD}, confidence \in {50, 90},
          llm \in {a \in BiasAnswers : ~AnalyzeBiasRaises(a)} :
         LET raw == [title |-> title, content |-> content, source |-> "u1"]
             full_text == _prepare_text(raw)
             s0 == create_initial_state(raw)
             s1 == CollectorProcess(s0, [title |-> title # <<>>,
                                         content |-> content # <<>>])
             h == <<_create_claim(ClaimData(text, confidence))>>
             r == BiasDetectorProcess([s1 EXCEPT !.claims = <<1>>], h, llm)
         IN analytics' = [call |-> "verify",
                          full_text |-> full_text,
                          claim |-> h[1],
                          result |-> r.hp[1]]
    /\ UNCHANGED single_frame

NextVerify == VerifyClaims

SpecVerify == InitVerify /\ [][NextVerify]_vars

\* C25: a claim is SUPPORTED when more than 0.7 of its tokens occur in the
\* full text of the document, PARTIALLY_SUPPORTED when more than 0.4 do,
\* and UNSUPPORTED otherwise; a claim all of whose tokens occur in the
\* document is SUPPORTED.
C25_VerifiedAgainstDocument ==
    analytics.call = "verify" =>
        LET claim_words == Range(analytics.claim.text)
            found == Cardinality(claim_words \cap Range(analytics.full_text))
            n == Cardinality(claim_words)
        IN analytics.result.verification =
             IF found * 10 > 7 * n THEN "SUPPORTED"
             ELSE IF found * 10 > 4 * n THEN "PARTIALLY_SUPPORTED"
             ELSE "UNSUPPORTED"

(***************************************************************************)
(* Sequences of score_source calls over two sources                        *)
(* (analytics/credibility_scorer.py).  `last` and `found` are observers:   *)
(* what the most recent scoring of each source returned, and what the most *)
(* recent scoring of it that found data returned.                          *)
(***************************************************************************)
Sources == {"wire", "blog"}

TrendQueries ==
    {[kind |-> "raise"]}
    \cup {[kind |-> "row", total_claims |-> r[1], contradicted_claims |-> r[2],
           cross_validated_claims |-> r[3], avg_confidence |-> r[4]] :
            r \in {<<12, 0, 0, 0>>, <<12, 0, 1, 0>>, <<12, 0, 2, 0>>,
                   <<12, 2, 0, 0>>, <<60, 0, 2, 100>>, <<1, 0, 1, 100>>}}

\* variant: one cached score for all the sources
CacheOf_Any(cache, source_name) ==
    IF \E n \in Sources : cache[n] # Nothing
    THEN cache[CHOOSE n \in Sources : cache[n] # Nothing]
    ELSE Nothing

\* self.source_cache[source_name] if source_name in self.source_cache
CacheOf(cache, source_name) == cache[source_name]

InitTrend ==
    /\ InitSingle
    /\ analytics = [call |-> "none",
                    source_cache |-> [n \in Sources |-> Nothing],
                    last |-> [n \in Sources |-> Nothing],
                    found |-> [n \in Sources |-> Nothing]]

ScoreNamedSource ==
    /\ \E source_name \in Sources, q \in TrendQueries :
         LET cached == CacheOf(analytics.source_cache, source_name)
             credibility == score_source(cached, q)
         IN analytics' =
              [call |-> "score_source",
               source_name |-> source_name,
               query |-> q,
               result |-> credibility,
               source_cache |->
                   [analytics.source_cache EXCEPT ![source_name] =
                       source_cache(cached, q, credibility)],
               last |-> [analytics.last EXCEPT ![source_name] = credibility],
               found |-> [analytics.found EXCEPT ![source_name] =
                            IF _get_source_data(q) = Nothing THEN @
                            ELSE credibility]]
    /\ UNCHANGED single_frame

NextTrend == ScoreNamedSource

SpecTrend == InitTrend /\ [][NextTrend]_vars

\* the overall score of the data d before it is rounded, over Den
OverallOf(d) ==
    overall_score(_calculate_accuracy(d), _calculate_consistency(d),
                  _calculate_bias(d), _calculate_reliability(d))

\* C26: the trend of a scoring is 'improving' when its overall score is
\* more than 5 above that of the most recent earlier scoring of the same
\* source, 'declining' when it is more than 5 below, 'stable' otherwise and
\* for the first scoring of a source, whatever other sources were scored in
\* between.
C26_TrendAgainstLastScoring ==
    [][analytics' # analytics =>
        LET previous == analytics.last[analytics'.source_name]
            new == analytics'.result
        IN new.score_trend =
             IF previous = Nothing THEN "stable"
             ELSE IF new.overall_score - previous.overall_score > 500
             THEN "improving"
             ELSE IF new.overall_score - previous.overall_score < -500
             THEN "declining"
             ELSE "stable"]_vars

\* C26, amended: a scoring that finds data is compared, before its overall
\* score is rounded, with the most recent earlier scoring of the same
\* source that found data, and is 'stable' when there is none; a scoring
\* that finds no data is 'stable' and is not remembered.
C26_TrendAgainstLastData ==
    [][analytics' # analytics =>
        LET previous == analytics.found[analytics'.source_name]
            d == _get_source_data(analytics'.query)
            den == Den(d.total_claims)
            diff == OverallOf(d) - previous.overall_score * (den \div 100)
        IN analytics'.result.score_trend =
             IF d = Nothing \/ previous = Nothing THEN "stable"
             ELSE IF diff > 5 * den THEN "improving"
             ELSE IF diff < -5 * den THEN "declining"
             ELSE "stable"]_vars

\* the wire's score improved by more than 5 and its read then failed
\* ('stable', the improved score still cached), after the blog's score had
\* declined by more than 5
C26_Witness ==
    /\ analytics.call = "score_source"
    /\ analytics.source_name = "wire"
    /\ analytics.query.kind = "raise"
    /\ analytics.result.score_trend = "stable"
    /\ analytics.found["wire"] # Nothing
    /\ analytics.found["wire"].score_trend = "improving"
    /\ analytics.source_cache["wire"] = analytics.found["wire"]
    /\ analytics.found["blog"] # Nothing
    /\ analytics.found["blog"].score_trend = "declining"

(***************************************************************************)
(* Anomaly detection (analytics/temporal_analyzer.py) for a graph with one *)
(* entity.  `e` holds what the graph has for the entity: the numbers of    *)
(* its claims inside and before the window, their average confidences (in *)
(* hundredths) and the number of entities newly connected to it.           *)
(***************************************************************************)
EntityStats ==
    [recent_count : {0, 4, 5, 6, 16}, historical_count : {0, 1, 2, 3},
     recent_confidence : {30, 90}, historical_confidence : {80},
     new_connections : {0, 3, 10}]

\* the first MATCH keeps the entity when recent_count >= 5; the second
\* MATCH finds no claim before the cutoff when there is none, and the row
\* is then gone before the WHERE historical_count > 0 is looked at
_detect_mention_spikes(e, raises) ==
    IF raises THEN <<>>
    ELSE IF /\ e.recent_count >= 5
            /\ e.historical_count > 0
            /\ e.recent_count > e.historical_count * 3
    THEN <<[anomaly_type |-> "sudden_spike",
            severity |-> IF e.recent_count > 5 * e.historical_count
                         THEN "critical" ELSE "high"]>>
    ELSE <<>>

_detect_confidence_drops(e, raises) ==
    IF raises THEN <<>>
    ELSE IF /\ e.recent_count > 0
            /\ e.recent_confidence < 50
            /\ e.historical_count > 0
            /\ e.historical_confidence > 70
            /\ e.recent_confidence < e.historical_confidence - 30
    THEN <<[anomaly_type |-> "confidence_drop", severity |-> "high"]>>
    ELSE <<>>

_detect_entity_clusters(e, raises) ==
    IF raises THEN <<>>
    ELSE IF e.recent_count > 0 /\ e.new_connections >= 3
    THEN <<[anomaly_type |-> "new_entity_cluster",
            severity |-> IF e.new_connections >= 10 THEN "high" ELSE "medium"]>>
    ELSE <<>>

\* raises: the checks whose execute_query call raises
detect_anomalies(e, raises) ==
    _detect_mention_spikes(e, "spikes" \in raises)
    \o _detect_confidence_drops(e, "drops" \in raises)
    \o _detect_entity_clusters(e, "clusters" \in raises)

InitAnomalies == InitSingle /\ analytics = [call |-> "none"]

DetectAnomalies ==
    /\ analytics.call = "none"
    /\ \E e \in EntityStats, raises \in SUBSET {"spikes", "drops", "clusters"} :
         analytics' = [call |-> "detect_anomalies",
                       entity |-> e,
                       raises |-> raises,
                       anomalies |-> detect_anomalies(e, raises)]
    /\ UNCHANGED single_frame

NextAnomalies == DetectAnomalies

SpecAnomalies == InitAnomalies /\ [][NextAnomalies]_vars

\* C27: a mention spike is reported for an entity exactly when its count
\* inside the window is at least 5 and more than 3 times its count before
\* the window (0 included), 'critical' when the ratio exceeds 5 and 'high'
\* otherwise; a check that fails does not remove what the other two found.
C27_SpikeExactly ==
    analytics.call = "detect_anomalies" =>
        LET e == analytics.entity
            Found(type) == SelectSeq(analytics.anomalies,
                                     LAMBDA a : a.anomaly_type = type)
            spike == e.recent_count >= 5 /\ e.recent_count > 3 * e.historical_count
        IN /\ "spikes" \notin analytics.raises =>
                Found("sudden_spike") =
                    IF ~spike THEN <<>>
                    ELSE <<[anomaly_type |-> "sudden_spike",
                            severity |-> IF e.recent_count > 5 * e.historical_count
                                         THEN "critical" ELSE "high"]>>
           /\ "drops" \notin analytics.raises =>
                Found("confidence_drop") = _detect_confidence_drops(e, FALSE)
           /\ "clusters" \notin analytics.raises =>
                Found("new_entity_cluster") = _detect_entity_clusters(e, FALSE)

(***************************************************************************)
(* Clustering of contradictions (analytics/contradiction_detector.py).     *)
(* A cluster keeps the sum of its members' scores (in hundredths): its     *)
(* cluster_score is sum / Len(contradictions).                             *)
(***************************************************************************)
MaxContradictions == 5

ContradictionKinds ==
    {[entities_involved |-> <<"fed">>, contradiction_score |-> 60],
     [entities_involved |-> <<"fed">>, contradiction_score |-> 95],
     [entities_involved |-> <<"fed", "ecb">>, contradiction_score |-> 70],
     [entities_involved |-> <<"ecb">>, contradiction_score |-> 80]}

\* entity_groups: the entities in the order of their first appearance
RECURSIVE GroupKeys(_, _)
GroupKeys(contradictions, keys) ==
    IF contradictions = <<>> THEN keys
    ELSE LET new == SelectSeq(Head(contradictions).entities_involved,
                              LAMBDA e : e \notin Range(keys))
         IN GroupKeys(Tail(contradictions), keys \o new)

RECURSIVE SumScores(_)
SumScores(contradictions) ==
    IF contradictions = <<>> THEN 0
    ELSE Head(contradictions).contradiction_score + SumScores(Tail(contradictions))

\* clusters.sort(key=cluster_score, reverse=True): stable, the scores
\* compared as fractions
RECURSIVE SortClusters(_)
SortClusters(clusters) ==
    IF clusters = <<>> THEN <<>>
    ELSE LET sorted == SortClusters(SubSeq(clusters, 1, Len(clusters) - 1))
             c == clusters[Len(clusters)]
             Before(x) == x.sum * Len(c.contradictions)
                              >= c.sum * Len(x.contradictions)
             front == SelectSeq(sorted, Before)
             back == SelectSeq(sorted, LAMBDA x : ~Before(x))
         IN front \o <<c>> \o back

cluster_contradictions(contradictions) ==
    LET Group(entity) ==
            SelectSeq(contradictions,
                      LAMBDA c : entity \in Range(c.entities_involved))
        Cluster(entity) ==
            LET entity_contradictions == Group(entity)
                n == Len(entity_contradictions)
                sum == SumScores(entity_contradictions)
            IN [entities |-> <<entity>>,
                contradictions |-> entity_contradictions,
                sum |-> sum,
                impact |-> IF sum > 85 * n /\ n >= 3 THEN "critical"
                           ELSE IF sum > 75 * n \/ n >= 5 THEN "high"
                           ELSE IF sum > 65 * n THEN "medium"
                           ELSE "low"]
        kept == SelectSeq(GroupKeys(contradictions, <<>>),
                          LAMBDA entity : Len(Group(entity)) >= 2)
    IN SortClusters(Map(Cluster, kept))

\* the module's class statements run before any method can be called
ClusterAfterImport(contradictions) ==
    IF DataclassDefined(ContradictionFields)
    THEN [kind |-> "clusters", clusters |-> cluster_contradictions(contradictions)]
    ELSE [kind |-> "TypeError"]

InitCluster == InitSingle /\ analytics = [call |-> "none"]

ClusterContradictions ==
    /\ analytics.call = "none"
    /\ \E n \in 0..MaxContradictions :
         \E kinds \in [1..n -> ContradictionKinds] :
           LET Numbered(i) ==
                   [id |-> i,
                    entities_involved |-> kinds[i].entities_involved,
                    contradiction_score |-> kinds[i].contradiction_score]
               contradictions == Map(Numbered, Interval(1, n))
           IN analytics' = [call |-> "cluster_contradictions",
                            contradictions |-> contradictions,
                            result |-> ClusterAfterImport(contradictions)]
    /\ UNCHANGED single_frame

NextCluster == ClusterContradictions

SpecCluster == InitCluster /\ [][NextCluster]_vars

\* C28: every cluster has at least 2 contradictions, all involving its
\* entity; every entity involved in at least 2 input contradictions gets
\* exactly one cluster; the cluster score is the mean of its members'
\* scores; impact is 'critical' for a score above 0.85 with 3 or more
\* members, else 'high' above 0.75 or with 5 or more members, else 'medium'
\* above 0.65, else 'low'.
C28_Clusters ==
    analytics.call = "cluster_contradictions" =>
        /\ analytics.result.kind = "clusters"
        /\ LET clusters == analytics.result.clusters
               input == analytics.contradictions
               Involving(entity) ==
                   {i \in DOMAIN input : entity \in Range(input[i].entities_involved)}
           IN /\ \A k \in DOMAIN clusters :
                   LET c == clusters[k]
                       n == Len(c.contradictions)
                       entity == c.entities[1]
                   IN /\ n >= 2
                      /\ {m.id : m \in Range(c.contradictions)} = Involving(entity)
                      /\ n = Cardinality(Involving(entity))
                      /\ c.sum = SumScores(c.contradictions)
                      /\ c.impact =
                           IF c.sum > 85 * n /\ n >= 3 THEN "critical"
                           ELSE IF c.sum > 75 * n \/ n >= 5 THEN "high"
                           ELSE IF c.sum > 65 * n THEN "medium"
                           ELSE "low"
              /\ \A entity \in {"fed", "ecb"} :
                   Cardinality(Involving(entity)) >= 2 =>
                       Cardinality({k \in DOMAIN clusters :
                                      clusters[k].entities = <<entity>>}) = 1

Neo4jClientMethods ==
    {"close", "find_similar_claims", "find_contradictory_claims", "create_entity",
     "create_claim", "create_source", "link_claim_to_entity",
     "link_claim_contradiction", "get_stats"}

\* the ordered pairs of different claims of the store
ClaimPairs ==
    {<<GenerateId(t1), GenerateId(t2)>> : t1, t2 \in StoredTexts} \
        {<<GenerateId(t), GenerateId(t)>> : t \in StoredTexts}

\* the detections of high and critical severity an analysis run can hand
\* over, for a pair in either order of its two claims
Detections ==
    {d \in [kind : {"Contradiction"},
            ids : ClaimPairs,
            contradiction_score : {75, 80, 95},
            contradiction_type : {"semantic", "numerical", "temporal"},
            severity : {"high", "critical"}] :
        /\ d.severity = "critical" => d.contradiction_score > 90
        /\ d.contradiction_type = "numerical" => d.contradiction_score = 80
        /\ d.contradiction_type = "temporal" => d.contradiction_score = 75}

\* self.neo4j.execute_query raises AttributeError on a client without the
\* method; the except clause logs it and nothing is written.  Otherwise
\* MERGE (c1)-[r:CONTRADICTS]->(c2) matches a relationship from c1 to c2
\* only, and SET overwrites its score, type and severity.
store_contradiction_in_graph(graph, contradiction) ==
    IF "execute_query" \notin Neo4jClientMethods THEN graph
    ELSE LET c1 == contradiction.ids[1]
             c2 == contradiction.ids[2]
             old == {e \in graph.contradicts : e.from = c1 /\ e.to = c2}
             Set(e) == [f \in DOMAIN e \cup {"score", "type", "severity"} |->
                          CASE f = "score" -> contradiction.contradiction_score
                            [] f = "type" -> contradiction.contradiction_type
                            [] f = "severity" -> contradiction.severity
                            [] OTHER -> e[f]]
         IN IF ~(HasNode(graph.claims, c1) /\ HasNode(graph.claims, c2))
            THEN graph
            ELSE IF old # {}
            THEN [graph EXCEPT !.contradicts = (@ \ old) \cup {Set(e) : e \in old}]
            ELSE [graph EXCEPT !.contradicts =
                    @ \cup {Set([from |-> c1, to |-> c2])}]

InitPersist ==
    /\ InitSingle
    /\ analytics = [call |-> "none",
                    graph |-> StoreOf(<<TA, TB, TC>>, EmptyStore),
                    latest |-> Nothing]

\* run_analytics: a contradiction of high severity is handed to
\* store_contradiction_in_graph; the Contradiction objects exist only when
\* the module's class statements ran
StoreContradiction ==
    /\ \E contradiction \in Detections :
         analytics' =
           [call |-> "store_contradiction_in_graph",
            graph |-> IF DataclassDefined(ContradictionFields)
                      THEN store_contradiction_in_graph(analytics.graph, contradiction)
                      ELSE analytics.graph,
            latest |-> contradiction]
    /\ UNCHANGED single_frame

\* GraphBuilderAgent links a claim of an article with the stored claim it
\* contradicts
PipelineLink ==
    /\ \E text1, text2 \in StoredTexts :
         /\ _are_contradictory(text1, text2)
         /\ analytics' =
              [analytics EXCEPT
                 !.call = "link_claim_contradiction",
                 !.graph = link_claim_contradiction(@, GenerateId(text1),
                                                    GenerateId(text2), 70)]
    /\ UNCHANGED single_frame

NextPersist == StoreContradiction \/ PipelineLink

SpecPersist == InitPersist /\ [][NextPersist]_vars

\* C30: the graph holds at most one CONTRADICTS edge for an unordered pair
\* of claims, and once a detection of the pair was persisted its score,
\* type and severity are those of the latest detection, in whatever order
\* the claims were presented.
C30_OneEdgeLatestDetection ==
    "graph" \in DOMAIN analytics =>
        LET edges == analytics.graph.contradicts
            latest == analytics.latest
        IN /\ \A e1, e2 \in edges :
                {e1.from, e1.to} = {e2.from, e2.to} => e1 = e2
           /\ latest # Nothing =>
                \E e \in edges :
                    /\ {e.from, e.to} = Range(latest.ids)
                    /\ "score" \in DOMAIN e
                    /\ e.score = latest.contradiction_score
                    /\ e.type = latest.contradiction_type
                    /\ e.severity = latest.severity

=============================================================================
